---------------------------- MODULE Spec2Model ----------------------------
(***************************************************************************)
(* The response cache of src/backend/Agents/cache.py: the module-level     *)
(* store _cache, the configuration read once at import, the functions      *)
(* get_cached_response / set_cached_response / clear_cache /               *)
(* get_cache_stats, and the two ADK hooks before_model_callback and        *)
(* after_model_callback as the dispatch pipeline runs them around the      *)
(* downstream model call.                                                  *)
(*                                                                         *)
(* The code takes no lock.  Each task runs the functions one source line   *)
(* at a time; under the "preemptive" scheduler (threads) any other task    *)
(* may run between two lines, under the "cooperative" scheduler (one       *)
(* asyncio event loop) a function without await runs to its end and tasks  *)
(* switch only while the downstream call is awaited.                       *)
(*                                                                         *)
(* Beside the cache, two functions of src/backend/api.py: the generator of *)
(* chat_stream, which turns the events of an agent run into server-sent    *)
(* events, and extract_sources_from_response, which collects the source    *)
(* references of a response text.                                          *)
(***************************************************************************)
EXTENDS Integers, Sequences, FiniteSets, TLC

VARIABLES
    enabled,   \* CACHE_ENABLED
    ttl,       \* CACHE_TTL_HOURS, in clock units
    sched,     \* how the surrounding server schedules its tasks
    clock,     \* datetime.now()
    store,     \* _cache: key -> [response, timestamp]
    pc,        \* per task: the source line it is at
    req,       \* per task: llm_request of the pipeline it runs (NoReq outside one)
    resp,      \* per task: llm_response obtained downstream
    key,       \* per task: cache_key
    val,       \* per task: response argument of set_cached_response
    item,      \* per task: cached_item
    now,       \* per task: the value datetime.now() returned for the new entry's timestamp
    ret,       \* per task: what the operation or the pre-dispatch hook returned
    called,    \* per task: the downstream call was executed for its request
    stat,      \* per task: what get_cache_stats returned
    op,        \* per task: the operation it runs
    gen,       \* chat_stream: where generate() is
    yielded,   \* chat_stream: the server-sent events generate() has yielded
    nevents,   \* chat_stream: how many events the agent run has produced
    xpc,       \* extract_sources_from_response: where the function is
    agents_called,      \* its argument agents_called
    sources_text,       \* the numbered lines of the "Sources:" section of its response_text
    nurls,              \* how many different URLs of response_text it has met
    sources,            \* its local sources
    seen_urls,          \* its local seen_urls
    source_id_counter,  \* its local source_id_counter
    result              \* what it returned

cachevars == <<enabled, ttl, sched, clock, store, pc, req, resp, key, val, item,
               now, ret, called, stat, op>>
stream == <<gen, yielded, nevents>>
extract == <<xpc, agents_called, sources_text, nurls, sources, seen_urls,
             source_id_counter, result>>
api == <<stream, extract>>
vars == <<cachevars, api>>

-----------------------------------------------------------------------------
\* Bounds of the model.
MaxTime == 2
MaxTTL == 1

Tasks == {"t1", "t2"}

-----------------------------------------------------------------------------
\* Python values.  Text is a sequence of one-character strings; None is a
\* value no text equals.
None == <<"<None>">>
NoneAtom == "None"
KeyErrorAtom == "KeyError"

\* a truthy value that is no str: the list of parts of a multimodal message
Parts == <<"<list>">>

\* what line 24 raises when prompt has no strip(), line 29 when json.dumps
\* meets an object it cannot serialize
AttributeErrorAtom == "AttributeError"
TypeErrorAtom == "TypeError"
Errors == {KeyErrorAtom, AttributeErrorAtom, TypeErrorAtom}

\* the value is a str
IsStr(s) == s # None /\ s # Parts

Whitespace == {" "}

\* str.lower() on one character
LowerChar(c) ==
    CASE c = "H" -> "h" [] c = "B" -> "b" [] c = "E" -> "e"
      [] c = "L" -> "l" [] c = "O" -> "o" [] OTHER -> c

\* a normalization that keeps the letter case
LowerNone(s) == s

\* str.lower()
Lower(s) == [i \in 1..Len(s) |-> LowerChar(s[i])]

RECURSIVE LStrip(_)
LStrip(s) == IF s # <<>> /\ Head(s) \in Whitespace THEN LStrip(Tail(s)) ELSE s

RECURSIVE RStrip(_)
RStrip(s) ==
    IF s # <<>> /\ s[Len(s)] \in Whitespace
    THEN RStrip(SubSeq(s, 1, Len(s) - 1)) ELSE s

\* str.strip()
Strip(s) == RStrip(LStrip(s))

\* Python truth of an optional text: None and "" are false.
TruthyText(s) == s # None /\ s # <<>>

\* Python truth of an optional atom (model name, response payload).
TruthyAtom(a) == a # NoneAtom /\ a # ""

-----------------------------------------------------------------------------
\* Configuration mappings: a dict is a sequence of <<name, value>> pairs in
\* insertion order, with distinct names.
ConfigKeyOrder == <<"max_tokens", "temperature">>

KeyRank(k) == CHOOSE i \in 1..Len(ConfigKeyOrder) : ConfigKeyOrder[i] = k

RECURSIVE InsertSorted(_, _)
InsertSorted(p, s) ==
    IF s = <<>> THEN <<p>>
    ELSE IF KeyRank(p[1]) <= KeyRank(Head(s)[1]) THEN <<p>> \o s
    ELSE <<Head(s)>> \o InsertSorted(p, Tail(s))

\* json.dumps without sort_keys=True: the items in insertion order
SortKeysNone(c) == c

RECURSIVE SortKeys(_)
\* json.dumps(..., sort_keys=True) writes a dict's items in key order
SortKeys(c) == IF c = <<>> THEN <<>> ELSE InsertSorted(Head(c), SortKeys(Tail(c)))

NoConfig == << <<"<None>", "<None>">> >>

\* a config that is no dict: an object json.dumps cannot serialize
ConfigObject == << <<"<object>", "<object>">> >>

\* json.dumps accepts the value
Serializable(c) == c # ConfigObject

\* `config or {}`
ConfigOrEmpty(c) == IF c = NoConfig \/ c = <<>> THEN <<>> ELSE c

\* a key that leaves the model out of the digest
GenerateCacheKeyNoModel(prompt, model_name, config) ==
    <<Lower(Strip(prompt)), "", SortKeys(ConfigOrEmpty(config))>>

\* _generate_cache_key: the digest of the canonical JSON text, taken as
\* collision-free, is that text's content.
GenerateCacheKey(prompt, model_name, config) ==
    <<Lower(Strip(prompt)), model_name, SortKeys(ConfigOrEmpty(config))>>

NoKey == <<>>

\* the exception _generate_cache_key raises on these arguments, None if it
\* returns: line 24 needs a str, line 29 a serializable config
KeyError3(prompt, model_name, config) ==
    IF ~IsStr(prompt) THEN AttributeErrorAtom
    ELSE IF ~Serializable(ConfigOrEmpty(config)) THEN TypeErrorAtom
    ELSE NoneAtom

-----------------------------------------------------------------------------
\* Request descriptors (llm_request) and downstream responses (llm_response).
Hello == <<"H", "e", "l", "l", "o">>
HelloPadded == <<" ", "h", "e", "l", "l", "o">>
Bye == <<"B", "y", "e">>

MkReq(attrs, prompt, messages, model, model_name, config) ==
    [attrs |-> attrs, prompt |-> prompt, messages |-> messages,
     model |-> model, model_name |-> model_name, config |-> config]

\* a message of llm_request.messages
MkMsg(kind, hasContent, content) ==
    [kind |-> kind, hasContent |-> hasContent, content |-> content]

ReqHello == MkReq({"prompt", "model"}, Hello, <<>>, "m1", NoneAtom, NoConfig)
ReqHelloMsg ==
    MkReq({"messages", "model_name", "config"}, None,
          <<MkMsg("obj", TRUE, Bye), MkMsg("dict", TRUE, HelloPadded)>>,
          NoneAtom, "m1", <<>>)
ReqNoPrompt == MkReq({"model"}, None, <<>>, "m1", NoneAtom, NoConfig)

NoReq == MkReq({}, None, <<>>, NoneAtom, NoneAtom, NoConfig)

\* a truthy messages value without len(): an iterator
Unsized == <<MkMsg("<iterator>", FALSE, None)>>

\* the exception the extraction of lines 110-128 (and 175-192) raises for
\* the request, None if it completes: line 115 calls len(messages)
ExtractError(r) ==
    IF "prompt" \notin r.attrs /\ "messages" \in r.attrs /\ r.messages = Unsized
    THEN TypeErrorAtom ELSE NoneAtom

Requests == {ReqHello, ReqHelloMsg, ReqNoPrompt}

\* an extraction that reads the first message, not the last
ExtractPromptFirst(r) ==
    IF "prompt" \in r.attrs THEN r.prompt
    ELSE IF "messages" \in r.attrs /\ r.messages # <<>> /\ r.messages # Unsized
         THEN LET first == r.messages[1]
              IN  IF first.hasContent THEN first.content ELSE None
    ELSE None

\* lines 104-120 and 171-184: the prompt attribute, else the content of the
\* last message
ExtractPrompt(r) ==
    IF "prompt" \in r.attrs THEN r.prompt
    ELSE IF "messages" \in r.attrs /\ r.messages # <<>> /\ r.messages # Unsized
         THEN LET last == r.messages[Len(r.messages)]
              IN  IF last.hasContent THEN last.content ELSE None
    ELSE None

\* lines 122-125 and 186-189
ExtractModel(r) ==
    IF "model" \in r.attrs THEN r.model
    ELSE IF "model_name" \in r.attrs THEN r.model_name
    ELSE NoneAtom

\* lines 127-128 and 191-192
ExtractConfig(r) == IF "config" \in r.attrs THEN r.config ELSE NoConfig

\* a hook without lines 130-132
KeyableAlways(r) == TRUE

\* a hook whose line 130 tests the prompt after strip()
KeyableNormalized(r) ==
    /\ IsStr(ExtractPrompt(r)) /\ TruthyText(Strip(ExtractPrompt(r)))
    /\ TruthyAtom(ExtractModel(r))

\* lines 130 and 194: `not prompt or not model_name` is false
Keyable(r) == TruthyText(ExtractPrompt(r)) /\ TruthyAtom(ExtractModel(r))

\* line 135 and line 210
RequestKey(r) == GenerateCacheKey(ExtractPrompt(r), ExtractModel(r), ExtractConfig(r))

\* lines 171-184: the post-dispatch hook's own copy of the prompt extraction
ExtractPromptAfter(r) ==
    IF "prompt" \in r.attrs THEN r.prompt
    ELSE IF "messages" \in r.attrs /\ r.messages # <<>> /\ r.messages # Unsized
         THEN LET last == r.messages[Len(r.messages)]
              IN  IF last.hasContent THEN last.content ELSE None
    ELSE None

\* a post-dispatch hook that reads model_name before model
ExtractModelAfterSwapped(r) ==
    IF "model_name" \in r.attrs THEN r.model_name
    ELSE IF "model" \in r.attrs THEN r.model
    ELSE NoneAtom

\* lines 186-189
ExtractModelAfter(r) ==
    IF "model" \in r.attrs THEN r.model
    ELSE IF "model_name" \in r.attrs THEN r.model_name
    ELSE NoneAtom

\* lines 191-192
ExtractConfigAfter(r) == IF "config" \in r.attrs THEN r.config ELSE NoConfig

\* line 194
KeyableAfter(r) == TruthyText(ExtractPromptAfter(r)) /\ TruthyAtom(ExtractModelAfter(r))

\* line 210
RequestKeyAfter(r) ==
    GenerateCacheKey(ExtractPromptAfter(r), ExtractModelAfter(r), ExtractConfigAfter(r))

\* the exception lines 104-135 raise for the request, None if they complete
RequestKeyError(r) ==
    IF ExtractError(r) # NoneAtom THEN ExtractError(r)
    ELSE IF ~Keyable(r) THEN NoneAtom
    ELSE KeyError3(ExtractPrompt(r), ExtractModel(r), ExtractConfig(r))

MkResp(kind, attrs, content, text) ==
    [kind |-> kind, attrs |-> attrs, content |-> content, text |-> text]

RespHi == MkResp("obj", {"content"}, "Hi there", NoneAtom)
RespHowdy == MkResp("dict", {"text"}, NoneAtom, "Howdy")
RespEmpty == MkResp("obj", {"content", "text"}, "", "Howdy")

NoResp == MkResp("obj", {}, NoneAtom, NoneAtom)

Responses == {RespHi, RespHowdy, RespEmpty}

\* an extraction that falls back to text when an object's content is empty,
\* as line 204 does for a dict
ResponseContentFallback(r) ==
    IF "content" \in r.attrs /\ TruthyAtom(r.content) THEN r.content
    ELSE IF "text" \in r.attrs THEN r.text
    ELSE NoneAtom

\* lines 198-204: the response's textual payload
ResponseContent(r) ==
    IF r.kind = "obj" /\ "content" \in r.attrs THEN r.content
    ELSE IF r.kind = "obj" /\ "text" \in r.attrs THEN r.text
    ELSE IF r.kind = "dict"
         THEN IF "content" \in r.attrs /\ TruthyAtom(r.content) THEN r.content
              ELSE IF "text" \in r.attrs THEN r.text
              ELSE NoneAtom
    ELSE NoneAtom

\* the exception lines 171-210 raise for the request and the response q, None
\* if they complete
AfterError(r, q) ==
    IF ExtractError(r) # NoneAtom THEN ExtractError(r)
    ELSE IF ~KeyableAfter(r) \/ ~TruthyAtom(ResponseContent(q)) THEN NoneAtom
    ELSE KeyError3(ExtractPromptAfter(r), ExtractModelAfter(r), ExtractConfigAfter(r))

\* The keys and values the direct callers of the cache functions use: the
\* fingerprints of the requests, and the fingerprint of another request.
OtherKey == GenerateCacheKey(Bye, "m1", NoConfig)
Keys == {RequestKey(r) : r \in {q \in Requests : Keyable(q)}} \cup {OtherKey}
Values == {"Hi there", "Howdy"}

-----------------------------------------------------------------------------
\* The store and the configuration.
EmptyStore == [k \in {} |-> [response |-> NoneAtom, timestamp |-> 0]]

NoItem == [response |-> NoneAtom, timestamp |-> -1]
NoStat == [enabled |-> FALSE, size |-> -1, ttl_hours |-> -1]
NoTime == NoItem.timestamp

\* the expiry test with >= for >: an entry as old as the TTL is expired
ExpiredEarly(t_now, t_stored) == t_now - t_stored >= ttl

\* the expiry test off by one the other way
ExpiredLate(t_now, t_stored) == t_now - t_stored > ttl + 1

\* line 50: datetime.now() - cached_time > timedelta(hours=CACHE_TTL_HOURS)
Expired(t_now, t_stored) == t_now - t_stored > ttl

\* a put that assigns only the response of an entry already there
NewEntryKeepsStamp(response, timestamp, old) ==
    [response |-> response,
     timestamp |-> IF old.timestamp = -1 THEN timestamp ELSE old.timestamp]

\* lines 62-65: the entry a put writes
NewEntry(response, timestamp, old) == [response |-> response, timestamp |-> timestamp]

\* a store of capacity one: a put evicts the entries under the other keys
StoreSetEvicting(st, k, e) == [x \in {k} |-> e]

\* a store that keeps the entry already under the key: first write wins
StoreSetIfAbsent(st, k, e) ==
    [x \in DOMAIN st \cup {k} |-> IF x \in DOMAIN st THEN st[x] ELSE e]

\* lines 62-65: _cache[cache_key] = {...}
StoreSet(st, k, e) == [x \in DOMAIN st \cup {k} |-> IF x = k THEN e ELSE st[x]]

\* a delete that sweeps the whole store
StoreDelAll(st, k) == [x \in {} |-> st[x]]

\* a delete that leaves the entry in place
StoreDelNone(st, k) == st

\* lines 46 and 51: del _cache[cache_key]
StoreDel(st, k) == [x \in DOMAIN st \ {k} |-> st[x]]

\* line 71 without line 70: the assignment binds a local name
StoreNotCleared(st) == st

\* line 71: _cache = {}
StoreCleared(st) == EmptyStore

\* a size that counts only the entries within the TTL
GetCacheStatsLive ==
    [enabled |-> enabled,
     size |-> Cardinality({k \in DOMAIN store : clock - store[k].timestamp <= ttl}),
     ttl_hours |-> ttl]

\* lines 74-80
GetCacheStats ==
    [enabled |-> enabled, size |-> Cardinality(DOMAIN store), ttl_hours |-> ttl]

Schedulers == {"cooperative", "preemptive"}

\* A task's code may run now: always under threads; on the event loop only
\* while no other task is inside a function (they switch at the awaited
\* downstream call).
Sched(t) ==
    \/ sched = "preemptive"
    \/ \A u \in Tasks \ {t} : pc[u] \in {"idle", "call", "done"}

Init ==
    /\ enabled \in BOOLEAN
    /\ ttl \in 0..MaxTTL
    /\ sched \in Schedulers
    /\ clock = 0
    /\ store = EmptyStore
    /\ pc = [t \in Tasks |-> "idle"]
    /\ op = [t \in Tasks |-> "none"]
    /\ req = [t \in Tasks |-> NoReq]
    /\ resp = [t \in Tasks |-> NoResp]
    /\ key = [t \in Tasks |-> NoKey]
    /\ val = [t \in Tasks |-> NoneAtom]
    /\ item = [t \in Tasks |-> NoItem]
    /\ now = [t \in Tasks |-> NoTime]
    /\ ret = [t \in Tasks |-> NoneAtom]
    /\ called = [t \in Tasks |-> FALSE]
    /\ stat = [t \in Tasks |-> NoStat]
    /\ gen = "idle" /\ yielded = <<>> /\ nevents = 0
    /\ xpc = "idle" /\ agents_called = <<>> /\ sources_text = <<>> /\ nurls = 0
    /\ sources = <<>> /\ seen_urls = {} /\ source_id_counter = 1 /\ result = <<>>

config == <<enabled, ttl, sched>>
locals == <<key, val, item, now>>

\* time passes
Tick ==
    /\ clock < MaxTime
    /\ clock' = clock + 1
    /\ UNCHANGED <<api, config, store, pc, op, req, resp, called, locals, ret, stat>>

\* The locals of a function die when it returns or raises; the caller still
\* knows the key it passed.
Forget(t) ==
    /\ val' = [val EXCEPT ![t] = NoneAtom]
    /\ item' = [item EXCEPT ![t] = NoItem]
    /\ now' = [now EXCEPT ![t] = NoTime]

\* A step takes a task from one access to shared state (the store, the
\* clock) to the next: the lines in between touch only the task's own
\* locals and the configuration, which never changes.

-----------------------------------------------------------------------------
\* get_cached_response(cache_key), called directly or by the pre-dispatch hook

\* a hook that ignores what the lookup returned
AfterLookupNever(v) == "call"

\* What the hook does with the value get_cached_response returned (lines
\* 138-146): a value ends the pipeline with it, None lets the pipeline go on
\* to the downstream call.
AfterLookup(v) == IF v # NoneAtom THEN "done" ELSE "call"

\* a pre-dispatch hook without the except clause
BeforeExceptReraise(e) == e

\* lines 148-151: whatever was raised inside the try, the hook returns None
BeforeExcept(e) == NoneAtom

\* a post-dispatch hook without the except clause
AfterExceptReraise(e, r) == e

\* lines 213-215: whatever was raised inside the try, the hook returns and
\* the pipeline's result r stands
AfterExcept(e, r) == r

\* an exception e is raised inside the pre-dispatch hook's try
HookRaise(t, e) ==
    /\ ret' = [ret EXCEPT ![t] = BeforeExcept(e)]
    /\ pc' = [pc EXCEPT ![t] = AfterLookup(BeforeExcept(e))]

\* get_cached_response returns v
GetReturn(t, o, v) ==
    /\ ret' = [ret EXCEPT ![t] = v]
    /\ pc' = [pc EXCEPT ![t] = IF o = "request" THEN AfterLookup(v) ELSE "done"]
    /\ Forget(t)

\* get_cached_response raises KeyError: the direct caller gets the exception,
\* the hook catches it and returns None (lines 148-151)
GetRaise(t) ==
    /\ IF op[t] = "request"
       THEN HookRaise(t, KeyErrorAtom)
       ELSE /\ ret' = [ret EXCEPT ![t] = KeyErrorAtom]
            /\ pc' = [pc EXCEPT ![t] = "done"]
    /\ Forget(t)

\* lines 35-39, entered by caller o with cache_key k: the membership test
Get35(t, o, k) ==
    /\ key' = [key EXCEPT ![t] = k]
    /\ IF ~enabled \/ k \notin DOMAIN store
       THEN GetReturn(t, o, NoneAtom)
       ELSE /\ pc' = [pc EXCEPT ![t] = "get41"]
            /\ UNCHANGED <<ret, val, item, now>>

\* a direct call of get_cached_response(k)
StartGet(t, k) ==
    /\ pc[t] = "idle" /\ Sched(t)
    /\ op' = [op EXCEPT ![t] = "get"]
    /\ Get35(t, "get", k)
    /\ UNCHANGED <<api, config, clock, store, req, resp, called, stat>>

\* lines 41-47; every entry is written by line 62 with a datetime, which is
\* never false, so line 44 never takes its branch
Get41(t) ==
    /\ pc[t] = "get41" /\ Sched(t)
    /\ IF key[t] \in DOMAIN store
       THEN /\ item' = [item EXCEPT ![t] = store[key[t]]]
            /\ pc' = [pc EXCEPT ![t] = "get50"]
            /\ UNCHANGED <<ret, val, now>>
       ELSE GetRaise(t)
    /\ UNCHANGED <<api, config, clock, store, op, req, resp, called, key, stat>>

\* a lookup whose hit renews the entry: the timestamp slides to the read
Get50Touch(t) ==
    /\ pc[t] = "get50" /\ Sched(t)
    /\ IF Expired(clock, item[t].timestamp)
       THEN IF key[t] \in DOMAIN store
            THEN store' = StoreDel(store, key[t]) /\ GetReturn(t, op[t], NoneAtom)
            ELSE store' = store /\ GetRaise(t)
       ELSE /\ store' = [k \in DOMAIN store |->
                           IF k = key[t] THEN [store[k] EXCEPT !.timestamp = clock]
                           ELSE store[k]]
            /\ GetReturn(t, op[t], item[t].response)
    /\ UNCHANGED <<api, config, clock, op, req, resp, called, key, stat>>

\* lines 50-54: the expiry test reads the clock and the task's own
\* cached_item; line 51 deletes from the store, line 54 returns the response
\* of cached_item
Get50(t) ==
    /\ pc[t] = "get50" /\ Sched(t)
    /\ IF Expired(clock, item[t].timestamp)
       THEN IF key[t] \in DOMAIN store
            THEN store' = StoreDel(store, key[t]) /\ GetReturn(t, op[t], NoneAtom)
            ELSE store' = store /\ GetRaise(t)
       ELSE store' = store /\ GetReturn(t, op[t], item[t].response)
    /\ UNCHANGED <<api, config, clock, op, req, resp, called, key, stat>>

-----------------------------------------------------------------------------
\* set_cached_response(cache_key, response), called directly or by the
\* post-dispatch hook

\* set_cached_response returns, and with it the post-dispatch hook
PutReturn(t) ==
    /\ pc' = [pc EXCEPT ![t] = "done"]
    /\ Forget(t)

\* set_cached_response without lines 59-60
Put59Unchecked(t, k, v) ==
    /\ key' = [key EXCEPT ![t] = k]
    /\ val' = [val EXCEPT ![t] = v]
    /\ now' = [now EXCEPT ![t] = clock]
    /\ pc' = [pc EXCEPT ![t] = "put62"]
    /\ item' = item

\* lines 59-64, entered with cache_key k and response v: the timestamp of
\* the new entry is read from the clock
Put59(t, k, v) ==
    /\ key' = [key EXCEPT ![t] = k]
    /\ IF ~enabled
       THEN PutReturn(t)
       ELSE /\ val' = [val EXCEPT ![t] = v]
            /\ now' = [now EXCEPT ![t] = clock]
            /\ pc' = [pc EXCEPT ![t] = "put62"]
            /\ item' = item

\* a direct call of set_cached_response(k, v)
StartPut(t, k, v) ==
    /\ pc[t] = "idle" /\ Sched(t)
    /\ op' = [op EXCEPT ![t] = "put"]
    /\ Put59(t, k, v)
    /\ UNCHANGED <<api, config, clock, store, req, resp, called, ret, stat>>

\* lines 62-65: the store of the new entry
Put62(t) ==
    /\ pc[t] = "put62" /\ Sched(t)
    /\ store' = StoreSet(store, key[t],
                         NewEntry(val[t], now[t],
                                  IF key[t] \in DOMAIN store THEN store[key[t]] ELSE NoItem))
    /\ PutReturn(t)
    /\ UNCHANGED <<api, config, clock, op, req, resp, called, key, ret, stat>>

-----------------------------------------------------------------------------
\* clear_cache() and get_cache_stats()

\* lines 68-71
Clear(t) ==
    /\ pc[t] = "idle" /\ Sched(t)
    /\ op' = [op EXCEPT ![t] = "clear"]
    /\ store' = StoreCleared(store)
    /\ pc' = [pc EXCEPT ![t] = "done"]
    /\ UNCHANGED <<api, config, clock, req, resp, called, locals, ret, stat>>

\* lines 74-80
Stats(t) ==
    /\ pc[t] = "idle" /\ Sched(t)
    /\ op' = [op EXCEPT ![t] = "stats"]
    /\ stat' = [stat EXCEPT ![t] = GetCacheStats]
    /\ pc' = [pc EXCEPT ![t] = "done"]
    /\ UNCHANGED <<api, config, clock, store, req, resp, called, locals, ret>>

-----------------------------------------------------------------------------
\* The dispatch pipeline: pre-dispatch hook, downstream call, post-dispatch hook

\* A request arrives and the pipeline runs before_model_callback, lines
\* 98-138: without a key the hook returns None, with one it calls
\* get_cached_response.
StartRequest(t, r) ==
    /\ pc[t] = "idle" /\ Sched(t)
    /\ op' = [op EXCEPT ![t] = "request"]
    /\ req' = [req EXCEPT ![t] = r]
    /\ IF ~enabled
       THEN pc' = [pc EXCEPT ![t] = "call"] /\ UNCHANGED <<ret, locals>>
       ELSE IF RequestKeyError(r) # NoneAtom
       THEN HookRaise(t, RequestKeyError(r)) /\ UNCHANGED locals
       ELSE IF ~Keyable(r)
       THEN pc' = [pc EXCEPT ![t] = "call"] /\ UNCHANGED <<ret, locals>>
       ELSE Get35(t, "request", RequestKey(r))
    /\ UNCHANGED <<api, config, clock, store, resp, called, stat>>

\* The downstream model call, begun when the hook returned None, completes
\* with the response r.
Respond(t, r) ==
    /\ pc[t] = "call" /\ Sched(t)
    /\ resp' = [resp EXCEPT ![t] = r]
    /\ called' = [called EXCEPT ![t] = TRUE]
    /\ pc' = [pc EXCEPT ![t] = "after166"]
    /\ UNCHANGED <<api, config, clock, store, op, req, locals, ret, stat>>

Call(t) == \E r \in Responses : Respond(t, r)

\* after_model_callback, lines 166-215: without a key or without text it
\* returns, an exception of the key computation is caught, else it calls
\* set_cached_response
After166(t) ==
    /\ pc[t] = "after166" /\ Sched(t)
    /\ IF ~enabled
       THEN pc' = [pc EXCEPT ![t] = "done"] /\ UNCHANGED <<ret, locals>>
       ELSE IF AfterError(req[t], resp[t]) # NoneAtom
       THEN /\ pc' = [pc EXCEPT ![t] = "done"]
            /\ ret' = [ret EXCEPT ![t] = AfterExcept(AfterError(req[t], resp[t]), ret[t])]
            /\ UNCHANGED locals
       ELSE IF ~KeyableAfter(req[t]) \/ ~TruthyAtom(ResponseContent(resp[t]))
       THEN pc' = [pc EXCEPT ![t] = "done"] /\ UNCHANGED <<ret, locals>>
       ELSE Put59(t, RequestKeyAfter(req[t]), ResponseContent(resp[t])) /\ ret' = ret
    /\ UNCHANGED <<api, config, clock, store, op, req, resp, called, stat>>

\* the caller takes the result; the task is free again
Finish(t) ==
    /\ pc[t] = "done" /\ Sched(t)
    /\ pc' = [pc EXCEPT ![t] = "idle"]
    /\ op' = [op EXCEPT ![t] = "none"]
    /\ req' = [req EXCEPT ![t] = NoReq]
    /\ resp' = [resp EXCEPT ![t] = NoResp]
    /\ ret' = [ret EXCEPT ![t] = NoneAtom]
    /\ called' = [called EXCEPT ![t] = FALSE]
    /\ stat' = [stat EXCEPT ![t] = NoStat]
    /\ key' = [key EXCEPT ![t] = NoKey]
    /\ UNCHANGED <<api, config, clock, store, val, item, now>>

Next ==
    \/ Tick
    \/ \E t \in Tasks :
        \/ \E k \in Keys : StartGet(t, k)
        \/ Get41(t) \/ Get50(t)
        \/ \E k \in Keys, v \in Values : StartPut(t, k, v)
        \/ Put62(t)
        \/ Clear(t)
        \/ Stats(t)
        \/ \E r \in Requests : StartRequest(t, r)
        \/ Call(t) \/ After166(t)
        \/ Finish(t)

Spec == Init /\ [][Next]_vars

-----------------------------------------------------------------------------
\* The hooks and the key function over the request descriptors and responses
\* an ADK pipeline can hand them, on the event loop.

HelloUpper == <<"H", "E", "L", "L", "O">>
HelloTrail == <<"h", "e", "l", "l", "o", " ">>
HelloInner == <<"h", "e", " ", "l", "l", "o">>
Blank == <<" ", " ">>

ConfigAB == << <<"temperature", "0">>, <<"max_tokens", "1">> >>
ConfigBA == << <<"max_tokens", "1">>, <<"temperature", "0">> >>

ReqUpper == MkReq({"prompt", "model"}, HelloUpper, <<>>, "m1", NoneAtom, NoConfig)
ReqTrail ==
    MkReq({"messages", "model"}, None, <<MkMsg("obj", TRUE, HelloTrail)>>,
          "m1", NoneAtom, NoConfig)
ReqNoModel == MkReq({"prompt"}, Hello, <<>>, NoneAtom, NoneAtom, NoConfig)
ReqEmptyPrompt == MkReq({"prompt", "model"}, <<>>, <<>>, "m1", NoneAtom, NoConfig)
ReqEmptyModel == MkReq({"prompt", "model", "model_name"}, Hello, <<>>, "", "m1", NoConfig)
ReqCfgAB == MkReq({"prompt", "model", "config"}, Hello, <<>>, "m1", NoneAtom, ConfigAB)
ReqCfgBA == MkReq({"prompt", "model_name", "config"}, Hello, <<>>, NoneAtom, "m1", ConfigBA)
ReqParts ==
    MkReq({"messages", "model"}, None, <<MkMsg("obj", TRUE, Parts)>>, "m1", NoneAtom, NoConfig)
ReqCfgObject == MkReq({"prompt", "model", "config"}, Hello, <<>>, "m1", NoneAtom, ConfigObject)
ReqUnsized == MkReq({"messages", "model"}, None, Unsized, "m1", NoneAtom, NoConfig)

\* a conversation that went another way before its last message "Hello"
ReqHelloLast ==
    MkReq({"messages", "model_name"}, None,
          <<MkMsg("obj", TRUE, Bye), MkMsg("dict", TRUE, Hello)>>,
          NoneAtom, "m1", NoConfig)

KeyRequests ==
    {ReqHello, ReqUpper, ReqTrail, ReqNoPrompt, ReqNoModel, ReqEmptyPrompt,
     ReqEmptyModel, ReqCfgAB, ReqCfgBA, ReqParts, ReqCfgObject}

\* a response that is no dict and has neither content nor text
RespBare == MkResp("obj", {}, NoneAtom, NoneAtom)

KeyResponses == {RespHi, RespEmpty, RespBare}

KeyInit == Init /\ sched = "cooperative" /\ enabled

KeyNext ==
    \/ Tick
    \/ \E t \in Tasks :
        \/ \E r \in KeyRequests : StartRequest(t, r)
        \/ Get41(t) \/ Get50(t)
        \/ \E r \in KeyResponses : Respond(t, r)
        \/ After166(t)
        \/ Put62(t)
        \/ Finish(t)

KeySpec == KeyInit /\ [][KeyNext]_vars

-----------------------------------------------------------------------------
\* The hooks for requests of different sessions that end in the same message,
\* on the event loop.

SessRequests == {ReqHello, ReqHelloLast, ReqNoPrompt}

SessInit == Init /\ sched = "cooperative" /\ enabled

SessNext ==
    \/ Tick
    \/ \E t \in Tasks :
        \/ \E r \in SessRequests : StartRequest(t, r)
        \/ Get41(t) \/ Get50(t)
        \/ Respond(t, RespHi)
        \/ After166(t)
        \/ Put62(t)
        \/ Finish(t)

SessSpec == SessInit /\ [][SessNext]_vars

-----------------------------------------------------------------------------
\* The hooks on descriptors that make them raise, and lookups that overlap a
\* clear_cache or an expiry deletion, under both schedulers.

\* a prompt of whitespace only
ReqBlank == MkReq({"prompt", "model"}, Blank, <<>>, "m1", NoneAtom, NoConfig)

ErrRequests == {ReqHello, ReqParts, ReqCfgObject, ReqUnsized, ReqBlank, ReqEmptyPrompt}

ErrInit == Init /\ enabled

ErrNext ==
    \/ Tick
    \/ \E t \in Tasks :
        \/ \E r \in ErrRequests : StartRequest(t, r)
        \/ Get41(t) \/ Get50(t)
        \/ Respond(t, RespHi)
        \/ After166(t)
        \/ Put62(t)
        \/ Clear(t)
        \/ Finish(t)

ErrSpec == ErrInit /\ [][ErrNext]_vars

-----------------------------------------------------------------------------
\* _generate_cache_key called directly, next to the hooks that guard it.

\* the arguments of direct calls of _generate_cache_key
KeyPrompts == {Hello, HelloUpper, HelloPadded, HelloTrail, HelloInner, Bye, Blank, <<>>, None}
KeyModels == {"m1", "m2", "", NoneAtom}
KeyConfigs == {NoConfig, <<>>, ConfigAB, ConfigBA}

\* a direct call _generate_cache_key(p, m, c), lines 20-30: the arguments
\* are kept as the task's descriptor, the digest as its key
StartKey(t, p, m, c) ==
    /\ pc[t] = "idle" /\ Sched(t)
    /\ op' = [op EXCEPT ![t] = "key"]
    /\ req' = [req EXCEPT ![t] = MkReq({"prompt", "model", "config"}, p, <<>>, m, NoneAtom, c)]
    /\ IF KeyError3(p, m, c) # NoneAtom
       THEN ret' = [ret EXCEPT ![t] = KeyError3(p, m, c)] /\ key' = key
       ELSE key' = [key EXCEPT ![t] = GenerateCacheKey(p, m, c)] /\ ret' = ret
    /\ pc' = [pc EXCEPT ![t] = "done"]
    /\ UNCHANGED <<api, config, clock, store, resp, called, val, item, now, stat>>

\* the prompt of ReqHello for another model
ReqM2 == MkReq({"prompt", "model"}, Hello, <<>>, "m2", NoneAtom, NoConfig)

FnRequests == {ReqHello, ReqM2, ReqNoPrompt, ReqNoModel, ReqEmptyPrompt, ReqEmptyModel}

FnResponses == {RespHi, RespHowdy}

FnInit == Init /\ sched = "cooperative" /\ enabled /\ ttl = MaxTTL

FnNext ==
    \E t \in Tasks :
        \/ \E p \in KeyPrompts, m \in KeyModels, c \in KeyConfigs : StartKey(t, p, m, c)
        \/ \E r \in FnRequests : StartRequest(t, r)
        \/ Get41(t) \/ Get50(t)
        \/ \E r \in FnResponses : Respond(t, r)
        \/ After166(t)
        \/ Put62(t)
        \/ Finish(t)

FnSpec == FnInit /\ [][FnNext]_vars

-----------------------------------------------------------------------------
\* Properties

Size(st) == Cardinality(DOMAIN st)

\* task t takes a step from line l
StepFrom(t, l) == pc[t] = l /\ pc'[t] # l

\* task t begins operation o
Begins(t, o) == pc[t] = "idle" /\ op'[t] = o

\* C1: End to end through the hooks, cache enabled, requests handled one
\* after the other on the event loop.  A keyable request whose fingerprint is
\* not in the store misses: the hook returns None, the store is untouched
\* and the downstream call begins and completes with a response.  The
\* post-dispatch hook of a response with text stores that text under the
\* request's fingerprint with the timestamp it read, adding exactly that
\* entry.  A request whose fingerprint is in the store is looked up; if the
\* entry is within the TTL at the expiry test the hook returns its text, the
\* pipeline ends with no downstream call, and the store (so its size) is
\* unchanged.
C1_EndToEnd ==
    [][(enabled /\ sched = "cooperative") =>
        \A t \in Tasks :
          /\ (Begins(t, "request") /\ Keyable(req'[t])
                /\ RequestKey(req'[t]) \notin DOMAIN store)
               => (pc'[t] = "call" /\ ret'[t] = NoneAtom /\ ~called'[t] /\ store' = store)
          /\ StepFrom(t, "call")
               => (pc'[t] = "after166" /\ called'[t] /\ resp'[t] \in Responses)
          /\ (StepFrom(t, "after166") /\ Keyable(req[t])
                /\ TruthyAtom(ResponseContent(resp[t])))
               => (pc'[t] = "put62" /\ key'[t] = RequestKey(req[t])
                   /\ val'[t] = ResponseContent(resp[t]) /\ now'[t] = clock)
          /\ (StepFrom(t, "put62") /\ op[t] = "request")
               => /\ called[t]
                  /\ pc'[t] = "done"
                  /\ DOMAIN store' = DOMAIN store \cup {RequestKey(req[t])}
                  /\ store'[RequestKey(req[t])] =
                        [response |-> ResponseContent(resp[t]), timestamp |-> now[t]]
                  /\ \A k \in DOMAIN store \ {RequestKey(req[t])} : store'[k] = store[k]
          /\ (Begins(t, "request") /\ Keyable(req'[t])
                /\ RequestKey(req'[t]) \in DOMAIN store)
               => (pc'[t] = "get41" /\ key'[t] = RequestKey(req'[t]) /\ store' = store)
          /\ (StepFrom(t, "get41") /\ op[t] = "request")
               => (pc'[t] = "get50" /\ item'[t] = store[key[t]] /\ store' = store)
          /\ (StepFrom(t, "get50") /\ op[t] = "request"
                /\ clock - store[key[t]].timestamp <= ttl)
               => (pc'[t] = "done" /\ ret'[t] = store[key[t]].response
                   /\ ~called'[t] /\ store' = store)
      ]_vars

\* C1 witness: on the event loop, one task's request "Hello"/"m1" was
\* answered downstream with "Hi there" and stored, and another task's
\* identical request ended with that text from the cache and no downstream
\* call; the store holds one entry.
C1_Witness ==
    /\ enabled /\ sched = "cooperative"
    /\ \E t, u \in Tasks :
        /\ t # u
        /\ op[u] = "request" /\ pc[u] = "done" /\ req[u] = ReqHello
        /\ called[u] /\ resp[u] = RespHi
        /\ op[t] = "request" /\ pc[t] = "done" /\ req[t] = ReqHello
        /\ ~called[t] /\ ret[t] = "Hi there"
        /\ RequestKey(ReqHello) \in DOMAIN store
        /\ store[RequestKey(ReqHello)].response = "Hi there"
        /\ GetCacheStats.size = 1

\* C2 as claimed: at most one downstream call per fingerprint per TTL window
\* in every interleaving: with a positive TTL, two requests with the same
\* fingerprint never both have their downstream call executed while neither
\* response is stored yet.
C2_AtMostOneCallInFlight ==
    (enabled /\ ttl > 0) =>
        \A t, u \in Tasks :
            (t # u /\ called[t] /\ called[u]
               /\ pc[t] \in {"after166", "put62"} /\ pc[u] \in {"after166", "put62"}
               /\ Keyable(req[t]) /\ Keyable(req[u]))
              => RequestKey(req[t]) # RequestKey(req[u])

\* C2 amended: under every scheduler, a pre-dispatch lookup that reads an
\* entry within the TTL ends the pipeline with that entry's text and no
\* downstream call, and a downstream call begins only after a miss: cache
\* disabled, no key, no entry under the key at the membership test, the read
\* or the delete, or an entry older than the TTL.  On the event loop a request
\* arriving while its fingerprint is stored always gets to the expiry test
\* of that entry.
C2_CallOnlyAfterMiss ==
    [][\A t \in Tasks :
          /\ (StepFrom(t, "get50") /\ op[t] = "request"
                /\ clock - item[t].timestamp <= ttl)
               => (pc'[t] = "done" /\ ~called'[t] /\ ret'[t] = item[t].response)
          /\ (pc[t] # "call" /\ pc'[t] = "call")
               => \/ ~enabled
                  \/ ~Keyable(req'[t])
                  \/ RequestKey(req'[t]) \notin DOMAIN store
                  \/ (pc[t] = "get50" /\ clock - item[t].timestamp > ttl)
          /\ (sched = "cooperative" /\ enabled /\ Begins(t, "request")
                /\ Keyable(req'[t]) /\ RequestKey(req'[t]) \in DOMAIN store)
               => pc'[t] = "get41"
          /\ (sched = "cooperative" /\ StepFrom(t, "get41") /\ op[t] = "request")
               => (pc'[t] = "get50" /\ item'[t] = store[key[t]])
      ]_vars

\* C2 witness: under threads, a request ended with the cached text and no
\* downstream call while the earlier request with the same fingerprint, whose
\* downstream call was executed, has not yet been taken by its caller.
C2_Witness ==
    /\ enabled /\ sched = "preemptive"
    /\ \E t, u \in Tasks :
        /\ t # u
        /\ op[u] = "request" /\ pc[u] = "done" /\ called[u]
        /\ op[t] = "request" /\ pc[t] = "done" /\ ~called[t]
        /\ ret[t] = ResponseContent(resp[u])
        /\ Keyable(req[t]) /\ Keyable(req[u])
        /\ RequestKey(req[t]) = RequestKey(req[u])
        /\ req[t] # req[u]

\* C3: a lookup hands out a value only at the expiry test, only the response
\* of the entry it read, and only when that entry's age (the clock minus its
\* timestamp) is at most the TTL.
C3_NeverReturnsExpired ==
    [][\A t \in Tasks :
          (ret'[t] # ret[t] /\ ret'[t] \notin {NoneAtom, KeyErrorAtom})
            => /\ pc[t] = "get50"
               /\ ret'[t] = item[t].response
               /\ clock - item[t].timestamp <= ttl
      ]_vars

\* C3 witness: time has advanced and a direct get is at its expiry test on
\* the stored entry, whose age exceeds the TTL.
C3_Witness ==
    \E t \in Tasks :
        /\ op[t] = "get" /\ pc[t] = "get50"
        /\ key[t] \in DOMAIN store /\ store[key[t]] = item[t]
        /\ clock - item[t].timestamp > ttl

\* C4: when a lookup reaches its expiry test on the entry stored under its
\* key and that entry's age exceeds the TTL, it returns None (to the hook: a
\* miss) and deletes that entry and no other, so the size is one less; and on
\* the event loop a lookup past its membership test always tests the entry
\* stored under its key.
C4_ExpiredGetDeletes ==
    /\ [][\A t \in Tasks :
             (StepFrom(t, "get50") /\ key[t] \in DOMAIN store
                /\ item[t] = store[key[t]] /\ clock - item[t].timestamp > ttl)
               => /\ ret'[t] = NoneAtom
                  /\ pc'[t] = (IF op[t] = "request" THEN "call" ELSE "done")
                  /\ DOMAIN store' = DOMAIN store \ {key[t]}
                  /\ Size(store') = Size(store) - 1
                  /\ \A k \in DOMAIN store' : store'[k] = store[k]
         ]_vars
    /\ [](sched = "cooperative" =>
            \A t \in Tasks :
                /\ pc[t] \in {"get41", "get50"} => enabled /\ key[t] \in DOMAIN store
                /\ pc[t] = "get50" => item[t] = store[key[t]])

\* C4 witness: a direct get returned None for a key that is no longer in the
\* store, while the other task still holds the copy of that key's entry it
\* read before, older than the TTL.
C4_Witness ==
    \E t, u \in Tasks :
        /\ t # u
        /\ op[t] = "get" /\ pc[t] = "done" /\ ret[t] = NoneAtom
        /\ key[t] \notin DOMAIN store
        /\ pc[u] = "get50" /\ key[u] = key[t]
        /\ clock - item[u].timestamp > ttl

\* C5 as claimed: with a TTL of zero, a get on the entry as it was put
\* returns its value.
C5_GetAfterPutAtZeroTTL ==
    [][\A t \in Tasks :
          (ttl = 0 /\ StepFrom(t, "get50") /\ op[t] = "get"
             /\ key[t] \in DOMAIN store /\ item[t] = store[key[t]])
            => ret'[t] = item[t].response
      ]_vars

\* C5 amended: a get on the entry as it was put returns its value and leaves
\* the store alone whenever the clock at the expiry test is at most the TTL
\* past the entry's timestamp; with a TTL of zero that is when the clock has
\* not advanced since the put, and once it has the get returns None.
C5_GetAfterPutWithinTTL ==
    [][\A t \in Tasks :
          (StepFrom(t, "get50") /\ op[t] = "get"
             /\ key[t] \in DOMAIN store /\ item[t] = store[key[t]])
            => /\ clock - item[t].timestamp <= ttl
                    => (ret'[t] = item[t].response /\ pc'[t] = "done" /\ store' = store)
               /\ (ttl = 0 /\ clock > item[t].timestamp) => ret'[t] = NoneAtom
      ]_vars

\* C5 witness: with a TTL of zero, a put of a key is done and a get of the
\* same key returned the value stored under it.
C5_Witness ==
    /\ ttl = 0
    /\ \E t, u \in Tasks :
        /\ t # u
        /\ op[u] = "put" /\ pc[u] = "done"
        /\ op[t] = "get" /\ pc[t] = "done" /\ key[t] = key[u]
        /\ key[t] \in DOMAIN store
        /\ ret[t] = store[key[t]].response

\* C6: with the cache disabled the store stays empty, no lookup gets past
\* line 35 and no put past line 59, every get returns None, the pre-dispatch
\* hook returns None so that every pipeline executes its downstream call, and
\* stats reports enabled false (and size 0).
C6_DisabledIsNoOp ==
    ~enabled =>
        /\ store = EmptyStore
        /\ GetCacheStats.enabled = FALSE
        /\ GetCacheStats.size = 0
        /\ \A t \in Tasks :
            /\ pc[t] \notin {"get41", "get50", "put62"}
            /\ ret[t] = NoneAtom
            /\ (op[t] = "request" /\ pc[t] = "done") => called[t]
            /\ (op[t] = "stats" /\ pc[t] = "done")
                 => (stat[t].enabled = FALSE /\ stat[t].size = 0)

\* C6 witness: cache disabled, a put of a key is done, a get of the same key
\* returned None, and the store is empty.
C6_Witness ==
    /\ ~enabled
    /\ \E t, u \in Tasks :
        /\ op[u] = "put" /\ pc[u] = "done"
        /\ op[t] = "get" /\ pc[t] = "done" /\ key[t] = key[u]
        /\ ret[t] = NoneAtom

\* C7: clear_cache returns with the store empty whatever it held, expired or
\* not, so every key stored before is absent and the size is 0; and a get of
\* a key that is not in the store returns None at once.
C7_ClearEmpties ==
    [][\A t \in Tasks :
          /\ Begins(t, "clear")
               => /\ pc'[t] = "done"
                  /\ Size(store') = 0
                  /\ \A k \in DOMAIN store : k \notin DOMAIN store'
          /\ (Begins(t, "get") /\ key'[t] \notin DOMAIN store)
               => (pc'[t] = "done" /\ ret'[t] = NoneAtom)
      ]_vars

\* C7 witness: cache enabled, time has advanced, a put is done and a clear is
\* done, and the store is empty.
C7_Witness ==
    /\ enabled /\ clock > ttl
    /\ store = EmptyStore
    /\ \E t, u \in Tasks :
        /\ op[u] = "put" /\ pc[u] = "done"
        /\ op[t] = "clear" /\ pc[t] = "done"

\* C8: the store of a put writes, under its key, exactly the response it was
\* given and the timestamp it read, replaces whatever entry was there, and
\* touches no other key: after two overlapping puts of one key the entry is
\* the pair of the put that stored last.
C8_PutWritesWholeEntry ==
    [][\A t \in Tasks :
          StepFrom(t, "put62")
            => /\ DOMAIN store' = DOMAIN store \cup {key[t]}
               /\ store'[key[t]] = [response |-> val[t], timestamp |-> now[t]]
               /\ \A k \in DOMAIN store \ {key[t]} : store'[k] = store[k]
      ]_vars

\* C8 witness: two puts of one key with different values overlap: one has
\* stored its entry, the other read its timestamp earlier and is about to
\* store.
C8_Witness ==
    \E t, u \in Tasks :
        /\ t # u
        /\ op[t] = "put" /\ pc[t] = "put62"
        /\ op[u] = "put" /\ pc[u] = "done" /\ key[u] = key[t]
        /\ key[t] \in DOMAIN store
        /\ store[key[t]].response # val[t]
        /\ now[t] < store[key[t]].timestamp

\* C9 as claimed: a get that overlaps a clear does not fail.  While the clock
\* is at most the TTL no entry is older than the TTL, so only clear_cache
\* removes entries: then no direct get raises KeyError.
C9_GetSurvivesClear ==
    clock <= ttl =>
        \A t \in Tasks : ~(op[t] = "get" /\ pc[t] = "done" /\ ret[t] = KeyErrorAtom)

\* C10 as claimed: the entry does not disappear under a get between its
\* membership test and its read or delete: with a positive TTL, the expiry
\* deletion of a key by one get never happens while another get of that key
\* is past its membership test.
C10_EntryStaysUnderGet ==
    [][\A t, u \in Tasks :
          (ttl > 0 /\ t # u /\ StepFrom(t, "get50")
             /\ key[t] \in DOMAIN store /\ key[t] \notin DOMAIN store')
            => ~(op[u] = "get" /\ pc[u] \in {"get41", "get50"} /\ key[u] = key[t])
      ]_vars

-----------------------------------------------------------------------------
\* Properties of the key function and of the hooks' use of it

\* the mapping a config argument denotes: its set of items, empty for None
ConfigMapping(c) == IF c = NoConfig THEN {} ELSE {c[i] : i \in 1..Len(c)}

\* task t made a direct call of _generate_cache_key that returned
KeyDone(t) == op[t] = "key" /\ pc[t] = "done" /\ ret[t] \notin Errors

\* C11: _generate_cache_key is deterministic on valid arguments: two direct
\* calls with the same non-empty prompt, the same non-empty model and configs
\* that denote the same mapping (the same items in any insertion order, None
\* and the empty dict alike) return the same key.
C11_KeyDeterministic ==
    \A t, u \in Tasks :
        (KeyDone(t) /\ KeyDone(u)
           /\ TruthyText(req[t].prompt) /\ TruthyAtom(req[t].model)
           /\ req[t].prompt = req[u].prompt /\ req[t].model = req[u].model
           /\ ConfigMapping(req[t].config) = ConfigMapping(req[u].config))
          => key[t] = key[u]

\* C11 witness: two direct calls with prompt "Hello", model "m1" and the same
\* two config items in opposite insertion orders returned the same key.
C11_Witness ==
    \E t, u \in Tasks :
        /\ KeyDone(t) /\ KeyDone(u)
        /\ req[t].prompt = Hello /\ req[u].prompt = Hello
        /\ req[t].model = "m1" /\ req[u].model = "m1"
        /\ req[t].config = ConfigAB /\ req[u].config = ConfigBA
        /\ key[t] = key[u] /\ key[t] # NoKey

\* the characters of s that are no whitespace
NonWs(s) == {i \in 1..Len(s) : s[i] \notin Whitespace}

\* s without its leading and trailing whitespace
Core(s) ==
    IF NonWs(s) = {} THEN <<>>
    ELSE SubSeq(s, CHOOSE i \in NonWs(s) : \A j \in NonWs(s) : i <= j,
                   CHOOSE i \in NonWs(s) : \A j \in NonWs(s) : i >= j)

\* the capital and the small form of a letter
CasePairs == {<<"H", "h">>, <<"E", "e">>, <<"L", "l">>, <<"O", "o">>, <<"B", "b">>}

\* two texts that differ at most in letter case
SameLetters(a, b) ==
    /\ Len(a) = Len(b)
    /\ \A i \in 1..Len(a) :
          a[i] = b[i] \/ <<a[i], b[i]>> \in CasePairs \/ <<b[i], a[i]>> \in CasePairs

\* two prompts that differ at most in letter case and in leading and trailing
\* whitespace
SamePrompt(a, b) == IsStr(a) /\ IsStr(b) /\ SameLetters(Core(a), Core(b))

\* two descriptors with such prompts, the same model and the same config
SameRequest(r, q) ==
    /\ SamePrompt(ExtractPrompt(r), ExtractPrompt(q))
    /\ ExtractModel(r) = ExtractModel(q)
    /\ ConfigMapping(ExtractConfig(r)) = ConfigMapping(ExtractConfig(q))

\* C12: the prompt is normalized by lower-casing and trimming: two requests
\* whose prompts differ only in letter case or in leading/trailing whitespace,
\* with the same model and config, are looked up and stored under the same
\* key; so when the first one's response is in the store, the second one's
\* pre-dispatch hook goes to the lookup of that entry, and if the entry is
\* within the TTL at the expiry test the hook returns its text and no
\* downstream call is made.
C12_NormalizedPromptsShareKey ==
    [][\A t, u \in Tasks :
          /\ (t # u /\ op'[t] = "request" /\ op'[u] = "request"
                /\ key'[t] # NoKey /\ key'[u] # NoKey /\ SameRequest(req'[t], req'[u]))
               => key'[t] = key'[u]
          /\ (t # u /\ Begins(t, "request") /\ op[u] = "request" /\ pc[u] = "done"
                /\ key[u] \in DOMAIN store /\ SameRequest(req'[t], req[u]))
               => (pc'[t] = "get41" /\ key'[t] = key[u])
          /\ (StepFrom(t, "get50") /\ op[t] = "request"
                /\ clock - store[key[t]].timestamp <= ttl)
               => (pc'[t] = "done" /\ ~called'[t] /\ ret'[t] = store[key[t]].response)
      ]_vars

\* C12 witness: the request with prompt "HELLO" was answered downstream with
\* "Hi there" and stored; the request with the last message "hello " and the
\* same model ended with that text from the cache and no downstream call.
C12_Witness ==
    \E t, u \in Tasks :
        /\ op[u] = "request" /\ pc[u] = "done" /\ req[u] = ReqUpper
        /\ called[u] /\ resp[u] = RespHi
        /\ op[t] = "request" /\ pc[t] = "done" /\ req[t] = ReqTrail
        /\ ~called[t] /\ ret[t] = "Hi there"
        /\ key[t] = key[u] /\ key[t] \in DOMAIN store

\* the descriptor's prompt or model is empty or absent
Missing(r) == ExtractPrompt(r) \in {None, <<>>} \/ ExtractModel(r) \in {NoneAtom, ""}

\* C13 as claimed: the key function fails when the prompt or the model is
\* empty or absent: a direct call with such arguments ends with an error.
C13_KeyFailsOnEmpty ==
    \A t \in Tasks :
        (op[t] = "key" /\ pc[t] = "done" /\ Missing(req[t])) => ret[t] \in Errors

\* C13 amended: the hooks, not the key function, reject an empty or absent
\* prompt or model.  For such a descriptor the pre-dispatch hook returns None
\* without computing a key or touching the store and the pipeline goes on to
\* the downstream call, and the post-dispatch hook returns without storing.
\* _generate_cache_key itself validates nothing: a direct call with a None
\* prompt raises AttributeError, and with an empty prompt or an empty or
\* absent model it returns a key.
C13_HooksGuardKey ==
    [][\A t \in Tasks :
          /\ (Begins(t, "request") /\ Missing(req'[t]))
               => (pc'[t] = "call" /\ ret'[t] = NoneAtom /\ key'[t] = NoKey
                   /\ store' = store)
          /\ (StepFrom(t, "after166") /\ Missing(req[t]))
               => (pc'[t] = "done" /\ ret'[t] = NoneAtom /\ key'[t] = NoKey
                   /\ called[t] /\ store' = store)
          /\ (Begins(t, "key") /\ req'[t].prompt = None)
               => (ret'[t] = AttributeErrorAtom /\ key'[t] = NoKey)
          /\ (Begins(t, "key") /\ req'[t].prompt # None)
               => (ret'[t] = NoneAtom /\ key'[t] # NoKey)
      ]_vars

\* C13 witness: a request with an empty model went through the downstream
\* call with no key computed and nothing stored, while a direct call of the
\* key function with an empty prompt returned a key.
C13_Witness ==
    \E t, u \in Tasks :
        /\ op[t] = "request" /\ pc[t] = "done" /\ req[t] = ReqEmptyModel
        /\ called[t] /\ key[t] = NoKey /\ store = EmptyStore
        /\ op[u] = "key" /\ pc[u] = "done" /\ req[u].prompt = <<>>
        /\ ret[u] = NoneAtom /\ key[u] # NoKey

\* C14: the pre-dispatch hook returns None, and the pipeline goes on to the
\* downstream call, whenever the descriptor's prompt or model is empty or
\* absent, whenever nothing is stored under the request's key, and whenever
\* the entry stored under it is older than the TTL at the expiry test; the
\* downstream call is then executed, and no request ever ends with an error.
C14_NoOpinionOnMiss ==
    [][\A t \in Tasks :
          /\ (Begins(t, "request") /\ Missing(req'[t]))
               => (pc'[t] = "call" /\ ret'[t] = NoneAtom)
          /\ (Begins(t, "request") /\ ~Missing(req'[t])
                /\ RequestKeyError(req'[t]) = NoneAtom
                /\ RequestKey(req'[t]) \notin DOMAIN store)
               => (pc'[t] = "call" /\ ret'[t] = NoneAtom /\ key'[t] = RequestKey(req'[t]))
          /\ (StepFrom(t, "get50") /\ op[t] = "request"
                /\ clock - store[key[t]].timestamp > ttl)
               => (pc'[t] = "call" /\ ret'[t] = NoneAtom)
          /\ StepFrom(t, "call") => (pc'[t] = "after166" /\ called'[t])
          /\ op'[t] = "request" => ret'[t] \notin Errors
      ]_vars

\* C14 witness: one request was answered downstream and stored its response;
\* the other, with the same key, is on its way to the downstream call after
\* its lookup found that entry older than the TTL and removed it.
C14_Witness ==
    \E t, u \in Tasks :
        /\ op[t] = "request" /\ pc[t] = "done" /\ called[t] /\ resp[t] = RespHi
        /\ key[t] # NoKey
        /\ op[u] = "request" /\ pc[u] = "call" /\ ret[u] = NoneAtom
        /\ key[u] = key[t] /\ key[u] \notin DOMAIN store
        /\ clock > ttl

\* the response has no content and no text field
NoField(r) == "content" \notin r.attrs /\ "text" \notin r.attrs

\* the response is an object whose content field is empty
EmptyContent(r) == r.kind = "obj" /\ "content" \in r.attrs /\ r.content = ""

\* C15: when the downstream response has no extractable text (no content or
\* text field, an empty content field, or whatever else the extraction of
\* lines 198-204 turns into nothing), the post-dispatch hook returns with the
\* store exactly as it was: nothing is added, and an entry already under the
\* request's key is neither overwritten nor removed.
C15_NoTextNotCached ==
    [][\A t \in Tasks :
          (StepFrom(t, "after166")
             /\ (NoField(resp[t]) \/ EmptyContent(resp[t])
                   \/ ~TruthyAtom(ResponseContent(resp[t]))))
            => (pc'[t] = "done" /\ store' = store /\ ret'[t] = ret[t])
      ]_vars

\* C15 witness: a request answered downstream with an empty content field is
\* done, and the entry another request stored under the same key meanwhile
\* is still there with its text.
C15_Witness ==
    \E t, u \in Tasks :
        /\ op[t] = "request" /\ pc[t] = "done" /\ called[t] /\ resp[t] = RespEmpty
        /\ op[u] = "request" /\ pc[u] = "done" /\ called[u] /\ resp[u] = RespHi
        /\ key[t] = key[u] /\ key[t] \in DOMAIN store
        /\ store[key[t]].response = "Hi there"

\* C16: neither hook propagates an error raised inside it.  When the
\* descriptor extraction or the key computation raises in the pre-dispatch
\* hook, and when the store lookup raises KeyError (the entry went away under
\* it, at the read or at the delete), the hook returns None and the pipeline
\* goes on to the downstream call, which is executed; when the post-dispatch
\* hook raises it returns with nothing stored and the pipeline's result as
\* it was; no request ever ends with an error.
C16_HooksSwallowErrors ==
    [][\A t \in Tasks :
          /\ op'[t] = "request" => ret'[t] \notin Errors
          /\ (Begins(t, "request") /\ RequestKeyError(req'[t]) # NoneAtom)
               => (pc'[t] = "call" /\ ret'[t] = NoneAtom /\ store' = store)
          /\ (StepFrom(t, "get41") /\ op[t] = "request" /\ key[t] \notin DOMAIN store)
               => (pc'[t] = "call" /\ ret'[t] = NoneAtom /\ store' = store)
          /\ (StepFrom(t, "get50") /\ op[t] = "request" /\ key[t] \notin DOMAIN store
                /\ clock - item[t].timestamp > ttl)
               => (pc'[t] = "call" /\ ret'[t] = NoneAtom /\ store' = store)
          /\ StepFrom(t, "call") => (pc'[t] = "after166" /\ called'[t])
          /\ (StepFrom(t, "after166") /\ AfterError(req[t], resp[t]) # NoneAtom)
               => (pc'[t] = "done" /\ called[t] /\ ret'[t] = ret[t] /\ store' = store)
      ]_vars

\* C16 witness: under threads, the request whose last message is a list of
\* parts (both hooks raise AttributeError on it) is done, answered downstream
\* with text and with nothing stored, while the other request's lookup is
\* past its membership test and about to read a key that a clear_cache has
\* removed.
C16_Witness ==
    /\ sched = "preemptive"
    /\ \E t, u \in Tasks :
        /\ op[t] = "request" /\ pc[t] = "done" /\ req[t] = ReqParts
        /\ called[t] /\ resp[t] = RespHi /\ ret[t] = NoneAtom
        /\ op[u] = "request" /\ pc[u] = "get41" /\ key[u] \notin DOMAIN store
        /\ store = EmptyStore

-----------------------------------------------------------------------------
\* Properties of the store under every operation

\* C17: one entry per key, last write wins.  A put of a key that is already
\* in the store replaces that key's entry by its own response and timestamp
\* and leaves the set of keys, so the size, as it was.  When operations run
\* one after the other (event loop) the timestamp it writes is the clock it
\* read in this put, never earlier than the one it replaces.  A get that tests the
\* stored entry within the TTL returns the response last put.
C17_LastWriteWins ==
    [][\A t \in Tasks :
          /\ (StepFrom(t, "put62") /\ key[t] \in DOMAIN store)
               => /\ DOMAIN store' = DOMAIN store
                  /\ Size(store') = Size(store)
                  /\ store'[key[t]].response = val[t]
                  /\ store'[key[t]].timestamp = now[t]
          /\ (sched = "cooperative" /\ StepFrom(t, "put62"))
               => /\ store'[key[t]].timestamp = now[t] /\ now[t] <= clock
                  /\ key[t] \in DOMAIN store => store[key[t]].timestamp <= now[t]
          /\ (StepFrom(t, "get50") /\ op[t] = "get" /\ key[t] \in DOMAIN store
                /\ item[t] = store[key[t]] /\ clock - item[t].timestamp <= ttl)
               => ret'[t] = store[key[t]].response
      ]_vars

\* C17 witness: on the event loop, a get returned the value a key held, and
\* after a later put of that key the store holds one entry, with another
\* value and the clock of that put as its timestamp.
C17_Witness ==
    /\ sched = "cooperative" /\ enabled
    /\ \E t, u \in Tasks :
        /\ op[u] = "get" /\ pc[u] = "done" /\ ret[u] \in Values
        /\ op[t] = "put" /\ pc[t] = "done" /\ key[t] = key[u]
        /\ DOMAIN store = {key[t]}
        /\ store[key[t]].response # ret[u]
        /\ store[key[t]].timestamp = clock /\ clock > 0

-----------------------------------------------------------------------------
\* Properties of the two hooks' keys

\* C18: the post-dispatch hook stores under the key the pre-dispatch hook
\* looked up.  When the post-dispatch hook goes on to store, the key it
\* computed (lines 171-210) is the key the pre-dispatch hook computed for the
\* same descriptor (lines 104-135); a descriptor for which the pre-dispatch
\* hook computed no key is not stored by the post-dispatch hook either; the
\* store then holds the response text under that key; and the next request
\* with the identical descriptor is looked up under it.
C18_HooksAgreeOnKey ==
    [][\A t, u \in Tasks :
          /\ (StepFrom(t, "after166") /\ pc'[t] = "put62")
               => (key'[t] = key[t] /\ key[t] = RequestKey(req[t]))
          /\ (StepFrom(t, "after166") /\ key[t] = NoKey)
               => (pc'[t] = "done" /\ store' = store)
          /\ (StepFrom(t, "put62") /\ op[t] = "request")
               => /\ RequestKey(req[t]) \in DOMAIN store'
                  /\ store'[RequestKey(req[t])].response = ResponseContent(resp[t])
          /\ (t # u /\ Begins(u, "request") /\ req'[u] = req[t]
                /\ op[t] = "request" /\ pc[t] = "done" /\ called[t]
                /\ key[t] \in DOMAIN store)
               => (pc'[u] = "get41" /\ key'[u] = key[t])
      ]_vars

\* C18 witness: a request with a model_name and a two-item config was
\* answered downstream with "Hi there", and the identical request after it
\* ended with that text from the cache and no downstream call.
C18_Witness ==
    \E t, u \in Tasks :
        /\ t # u
        /\ op[t] = "request" /\ pc[t] = "done" /\ req[t] = ReqCfgBA
        /\ called[t] /\ resp[t] = RespHi
        /\ op[u] = "request" /\ pc[u] = "done" /\ req[u] = ReqCfgBA
        /\ ~called[u] /\ ret[u] = "Hi there"

-----------------------------------------------------------------------------
\* Properties of get_cache_stats and of eviction

\* the entry under k is older than the TTL
Stale(k) == clock - store[k].timestamp > ttl

\* C19: get_cache_stats is a read-only snapshot: the call changes neither
\* the store nor the configuration, removes no entry however old, and
\* returns the enabled flag, the TTL and as size the number of keys in the
\* store, those of entries older than the TTL included.
C19_StatsReadOnly ==
    [][\A t \in Tasks :
          Begins(t, "stats")
            => /\ pc'[t] = "done"
               /\ store' = store /\ enabled' = enabled /\ ttl' = ttl
               /\ stat'[t].enabled = enabled /\ stat'[t].ttl_hours = ttl
               /\ stat'[t].size = Size(store)
               /\ stat'[t].size >= Cardinality({k \in DOMAIN store : Stale(k)})
      ]_vars

\* C19 witness: get_cache_stats returned size 1 while the only entry of the
\* store is older than the TTL, and the entry is still there.
C19_Witness ==
    \E t \in Tasks :
        /\ op[t] = "stats" /\ pc[t] = "done" /\ stat[t].size = 1 /\ stat[t].enabled
        /\ Size(store) = 1
        /\ \A k \in DOMAIN store : Stale(k)

\* C20: eviction is lazy.  An entry older than the TTL leaves the store, or
\* is replaced, only in a step of a get of its own key at the expiry test,
\* of a put of its own key at its store, or of clear_cache; the passing of
\* time, every step of a get or put of another key and get_cache_stats leave
\* it in place, and get_cache_stats counts it.
C20_LazyEviction ==
    [][/\ \A k \in DOMAIN store :
            (Stale(k) /\ (k \notin DOMAIN store' \/ store'[k] # store[k]))
              => \E t \in Tasks :
                    \/ StepFrom(t, "get50") /\ key[t] = k /\ k \notin DOMAIN store'
                    \/ StepFrom(t, "put62") /\ key[t] = k /\ k \in DOMAIN store'
                    \/ Begins(t, "clear") /\ store' = EmptyStore
       /\ clock' # clock => store' = store
       /\ \A t \in Tasks :
            Begins(t, "stats")
              => (store' = store /\ \A k \in DOMAIN store : Stale(k) => stat'[t].size >= 1)
      ]_vars

\* C20 witness: an entry older than the TTL is in the store after a get of
\* another key returned and while get_cache_stats has counted it.
C20_Witness ==
    \E t, u \in Tasks :
        /\ op[t] = "get" /\ pc[t] = "done" /\ key[t] \notin DOMAIN store
        /\ op[u] = "stats" /\ pc[u] = "done" /\ stat[u].size = Size(store)
        /\ \E k \in DOMAIN store : k # key[t] /\ Stale(k)

\* C21: put never fails and the store has no capacity.  With the cache
\* enabled a put is never refused at entry, its store step returns without
\* an error, a put of a key that is not in the store makes the store one
\* entry larger whatever its size, and the entry under every other key is
\* kept as it was.
C21_PutNeverEvicts ==
    [][\A t \in Tasks :
          /\ (Begins(t, "put") /\ enabled) => pc'[t] = "put62"
          /\ (StepFrom(t, "put62") /\ enabled)
               => /\ pc'[t] = "done" /\ ret'[t] \notin Errors
                  /\ key[t] \in DOMAIN store'
                  /\ key[t] \notin DOMAIN store => Size(store') = Size(store) + 1
                  /\ \A k \in DOMAIN store \ {key[t]} :
                        k \in DOMAIN store' /\ store'[k] = store[k]
      ]_vars

\* C21 witness: a direct put has returned and the store holds its entry
\* next to an older entry under every other key.
C21_Witness ==
    /\ enabled
    /\ \E t \in Tasks :
        /\ op[t] = "put" /\ pc[t] = "done" /\ key[t] \in DOMAIN store
        /\ DOMAIN store = Keys /\ Size(store) > 1
        /\ \A k \in DOMAIN store \ {key[t]} :
              store[k].timestamp < store[key[t]].timestamp

\* C22: the expiry test is strict.  When a lookup tests the entry stored
\* under its key and the entry's age is at most the TTL, and in particular
\* when it is exactly the TTL, the lookup returns the stored response and the
\* entry stays in the store as it was; a lookup removes the entry only when
\* its age exceeds the TTL.
C22_BoundaryNotExpired ==
    [][\A t \in Tasks :
          (StepFrom(t, "get50") /\ enabled /\ key[t] \in DOMAIN store
             /\ item[t] = store[key[t]])
            => /\ clock - store[key[t]].timestamp = ttl
                    => /\ ret'[t] = store[key[t]].response
                       /\ key[t] \in DOMAIN store'
                       /\ store'[key[t]] = store[key[t]]
               /\ clock - store[key[t]].timestamp < ttl
                    => (ret'[t] = store[key[t]].response /\ store' = store)
               /\ key[t] \notin DOMAIN store' => clock - store[key[t]].timestamp > ttl
      ]_vars

\* C22 witness: with a positive TTL, a direct get has returned the response
\* of an entry that is still stored and whose age is exactly the TTL.
C22_Witness ==
    /\ enabled /\ ttl > 0
    /\ \E t \in Tasks :
        /\ op[t] = "get" /\ pc[t] = "done" /\ key[t] \in DOMAIN store
        /\ ret[t] = store[key[t]].response
        /\ clock - store[key[t]].timestamp = ttl

\* C23: a hit does not extend an entry's life.  A lookup that returns a
\* value, for a direct get or for the pre-dispatch hook, leaves the whole
\* store as it was, and so does every earlier step of a lookup; the
\* timestamp of a stored entry changes only at the store step of a put of
\* its key, so the expiry test always measures the age since that put.
C23_HitDoesNotRefresh ==
    [][/\ \A t \in Tasks :
            /\ (StepFrom(t, "get50") /\ ret'[t] \in Values) => store' = store
            /\ (Begins(t, "get") \/ Begins(t, "request") \/ StepFrom(t, "get41"))
                 => store' = store
       /\ \A k \in DOMAIN store \cap DOMAIN store' :
            store'[k].timestamp # store[k].timestamp
              => \E t \in Tasks : StepFrom(t, "put62") /\ key[t] = k
      ]_vars

\* C23 witness: one get returned the value of a key, and another get of the
\* same key is at its expiry test on the stored entry, which holds that value
\* and whose age exceeds the TTL.
C23_Witness ==
    /\ enabled
    /\ \E t, u \in Tasks :
        /\ op[u] = "get" /\ pc[u] = "done" /\ ret[u] \in Values
        /\ op[t] = "get" /\ pc[t] = "get50" /\ key[t] = key[u]
        /\ key[t] \in DOMAIN store /\ item[t] = store[key[t]]
        /\ item[t].response = ret[u]
        /\ clock - item[t].timestamp > ttl

\* C24: re-population after expiry.  When the pre-dispatch hook's lookup
\* tests an entry older than the TTL it removes the entry and reports a miss,
\* so the downstream call executes; the post-dispatch hook then stores the
\* response text under the same key with the clock it reads in that put as
\* the timestamp, and a later lookup that tests this entry within the TTL of
\* that timestamp is a hit that ends the pipeline without a downstream call.
C24_RefillAfterExpiry ==
    [][\A t \in Tasks :
          /\ (StepFrom(t, "get50") /\ op[t] = "request" /\ key[t] \in DOMAIN store
                /\ Stale(key[t]))
               => /\ item[t] = store[key[t]]
                  /\ ret'[t] = NoneAtom /\ pc'[t] = "call"
                  /\ key[t] \notin DOMAIN store'
          /\ (StepFrom(t, "call") /\ key[t] # NoKey)
               => (called'[t] /\ pc'[t] = "after166" /\ store' = store)
          /\ (StepFrom(t, "after166") /\ key[t] # NoKey
                /\ TruthyAtom(ResponseContent(resp[t])))
               => (pc'[t] = "put62" /\ key'[t] = key[t] /\ now'[t] = clock
                   /\ val'[t] = ResponseContent(resp[t]))
          /\ (StepFrom(t, "put62") /\ op[t] = "request")
               => /\ store'[key[t]] = [response |-> val[t], timestamp |-> now[t]]
                  /\ now[t] <= clock
                  /\ pc'[t] = "done"
          /\ (StepFrom(t, "get50") /\ op[t] = "request" /\ key[t] \in DOMAIN store
                /\ ~Stale(key[t]))
               => /\ ret'[t] = store[key[t]].response
                  /\ pc'[t] = "done" /\ ~called'[t] /\ store' = store
      ]_vars

\* C24 witness: one pipeline was answered downstream with a text and so
\* stored it; the clock has passed the TTL, the entry is gone, and another
\* pipeline with the same key, after its own downstream call, is about to
\* store a fresh entry stamped later than the TTL.
C24_Witness ==
    \E t, u \in Tasks :
        /\ op[u] = "request" /\ pc[u] = "done" /\ called[u] /\ resp[u] = RespHi
        /\ key[u] # NoKey
        /\ op[t] = "request" /\ pc[t] = "put62" /\ called[t]
        /\ key[t] = key[u] /\ key[t] \notin DOMAIN store
        /\ now[t] > ttl

\* C25: with the cache disabled the store is empty in every reachable state.
\* No key is ever in the store, whatever puts, gets, clears and pipelines
\* have run or are under way, no task holds a value or a timestamp to store,
\* and every size that get_cache_stats has reported is 0.
C25_DisabledStoreEmpty ==
    ~enabled =>
        /\ DOMAIN store = {}
        /\ Size(store) = 0
        /\ \A t \in Tasks :
            /\ \A k \in Keys : k \notin DOMAIN store
            /\ val[t] = NoneAtom /\ now[t] = NoTime
            /\ stat[t] # NoStat => stat[t].size = 0

\* C25 witness: cache disabled; a pipeline whose downstream call returned a
\* text has run its post-dispatch hook to the end, get_cache_stats has
\* reported, and the store is empty.
C25_Witness ==
    /\ ~enabled /\ store = EmptyStore
    /\ \E t, u \in Tasks :
        /\ op[t] = "request" /\ pc[t] = "done" /\ called[t] /\ resp[t] = RespHi
        /\ Keyable(req[t])
        /\ op[u] = "stats" /\ pc[u] = "done" /\ stat[u].size = 0

\* C26: a hit never crosses canonical descriptors.  Two descriptors get the
\* same key only if their prompts agree up to letter case and outer
\* whitespace, their models are the same and their configs denote the same
\* mapping; the entry under a key is written only by the store step of a
\* pipeline whose own descriptor has that key, and holds the text of that
\* pipeline's response; and the value a pre-dispatch hook returns is the
\* response of the entry stored under the key of its own descriptor.
C26_NoCrossHit ==
    [][/\ \A t, u \in Tasks :
            (op'[t] \in {"key", "request"} /\ op'[u] \in {"key", "request"}
               /\ key'[t] # NoKey /\ key'[u] # NoKey /\ key'[t] = key'[u])
              => SameRequest(req'[t], req'[u])
       /\ \A k \in DOMAIN store' :
            (k \notin DOMAIN store \/ store'[k] # store[k])
              => \E t \in Tasks :
                    /\ StepFrom(t, "put62") /\ op[t] = "request" /\ key[t] = k
                    /\ RequestKey(req[t]) = k
                    /\ store'[k].response = ResponseContent(resp[t])
       /\ \A t \in Tasks :
            (op[t] = "request" /\ ret'[t] # ret[t] /\ ret'[t] \in Values)
              => /\ pc[t] = "get50" /\ key[t] = RequestKey(req[t])
                 /\ key[t] \in DOMAIN store
                 /\ ret'[t] = store[key[t]].response
      ]_vars

\* C26 witness: the pipeline for "Hello" and model m2 was answered downstream
\* with "Howdy" and stored it; the pipeline for "Hello" and model m1 returned
\* the "Hi there" stored under its own key, with no downstream call.
C26_Witness ==
    \E t, u \in Tasks :
        /\ op[u] = "request" /\ pc[u] = "done" /\ req[u] = ReqM2
        /\ called[u] /\ resp[u] = RespHowdy
        /\ key[u] \in DOMAIN store /\ store[key[u]].response = "Howdy"
        /\ op[t] = "request" /\ pc[t] = "done" /\ req[t] = ReqHello
        /\ ~called[t] /\ ret[t] = "Hi there"
        /\ key[t] \in DOMAIN store /\ key[t] # key[u]

\* what the hooks take from a request: the prompt or else the content of the
\* last message, the model or else the model name, and the config
Triple(r) ==
    <<IF "prompt" \in r.attrs THEN r.prompt
      ELSE IF "messages" \in r.attrs /\ r.messages # <<>>
           THEN r.messages[Len(r.messages)].content
           ELSE None,
      IF "model" \in r.attrs THEN r.model
      ELSE IF "model_name" \in r.attrs THEN r.model_name ELSE NoneAtom,
      IF "config" \in r.attrs THEN r.config ELSE NoConfig>>

\* C27: the pre-dispatch hook's result is a function of the store, the clock
\* and the request's triple.  Two tasks whose requests agree on the triple
\* work with the same key, whatever else their requests hold (earlier
\* messages, the attribute that carries the model); and what the hook does
\* with that key is decided by the store and the clock alone: without a key
\* or without an entry under it the hook returns None, with an entry it reads
\* the entry and returns its response or, past the TTL, None.
C27_ResultDependsOnTriple ==
    [][\A t \in Tasks :
          /\ \A u \in Tasks :
                (op'[t] = "request" /\ op'[u] = "request"
                   /\ Triple(req'[t]) = Triple(req'[u]))
                  => key'[t] = key'[u]
          /\ Begins(t, "request")
               => /\ store' = store
                  /\ (key'[t] = NoKey \/ key'[t] \notin DOMAIN store)
                        => (pc'[t] = "call" /\ ret'[t] = NoneAtom)
                  /\ (key'[t] # NoKey /\ key'[t] \in DOMAIN store) => pc'[t] = "get41"
          /\ (StepFrom(t, "get41") /\ op[t] = "request")
               => (pc'[t] = "get50" /\ item'[t] = store[key[t]])
          /\ (StepFrom(t, "get50") /\ op[t] = "request")
               => IF clock - store[key[t]].timestamp > ttl
                  THEN pc'[t] = "call" /\ ret'[t] = NoneAtom
                  ELSE pc'[t] = "done" /\ ret'[t] = store[key[t]].response
      ]_vars

\* C27 witness: the request with the prompt "Hello" was answered downstream
\* and stored; another task's request, whose messages are "Bye" and then
\* "Hello", got that stored text from its pre-dispatch hook, with no
\* downstream call.
C27_Witness ==
    \E t, u \in Tasks :
        /\ t # u
        /\ op[u] = "request" /\ pc[u] = "done" /\ req[u] = ReqHello
        /\ called[u] /\ resp[u] = RespHi
        /\ op[t] = "request" /\ pc[t] = "done" /\ req[t] = ReqHelloLast
        /\ ~called[t] /\ ret[t] = "Hi there"
        /\ Triple(req[t]) = Triple(req[u]) /\ req[t] # req[u]

\* the prompt is a text of whitespace only
BlankPrompt(r) ==
    /\ IsStr(ExtractPrompt(r)) /\ ExtractPrompt(r) # <<>>
    /\ NonWs(ExtractPrompt(r)) = {}

\* the prompt is absent or the empty text
NoPrompt(r) == ExtractPrompt(r) = None \/ ExtractPrompt(r) = <<>>

\* a key whose normalized prompt is empty
EmptyPromptKey(k) == k # NoKey /\ k[1] = <<>>

\* C28, as claimed: a prompt that is empty after normalization is never
\* keyed: a pipeline whose prompt is whitespace only has no key, and no
\* entry is ever in the store under a key of the empty normalized prompt.
C28_BlankPromptNeverKeyed ==
    /\ \A t \in Tasks : (op[t] = "request" /\ BlankPrompt(req[t])) => key[t] = NoKey
    /\ \A k \in DOMAIN store : ~EmptyPromptKey(k)

\* C28, as the hooks have it: they test the prompt before it is normalized.
\* For an absent or empty prompt the pre-dispatch hook computes no key,
\* returns None and leaves the store alone, and the post-dispatch hook
\* returns without storing.  A prompt of whitespace only passes the test:
\* the pre-dispatch hook computes the key of the empty normalized prompt and
\* looks it up, and the post-dispatch hook stores the response text under it.
C28_BlankPromptIsCached ==
    [][\A t \in Tasks :
          /\ (Begins(t, "request") /\ NoPrompt(req'[t]))
               => (key'[t] = NoKey /\ pc'[t] = "call" /\ ret'[t] = NoneAtom
                   /\ store' = store)
          /\ (StepFrom(t, "after166") /\ NoPrompt(req[t]))
               => (pc'[t] = "done" /\ store' = store)
          /\ (Begins(t, "request") /\ BlankPrompt(req'[t])
                /\ TruthyAtom(ExtractModel(req'[t])))
               => /\ EmptyPromptKey(key'[t])
                  /\ pc'[t] = (IF key'[t] \in DOMAIN store THEN "get41" ELSE "call")
          /\ (StepFrom(t, "after166") /\ BlankPrompt(req[t])
                /\ TruthyAtom(ExtractModel(req[t]))
                /\ TruthyAtom(ResponseContent(resp[t])))
               => (pc'[t] = "put62" /\ EmptyPromptKey(key'[t]))
          /\ (StepFrom(t, "put62") /\ BlankPrompt(req[t]))
               => /\ EmptyPromptKey(key[t]) /\ key[t] \in DOMAIN store'
                  /\ store'[key[t]].response = ResponseContent(resp[t])
      ]_vars

\* C28 witness: a pipeline whose prompt is two spaces got "Hi there" from its
\* pre-dispatch hook, with no downstream call, out of the entry stored under
\* the key of the empty normalized prompt.
C28_Witness ==
    \E t \in Tasks :
        /\ op[t] = "request" /\ pc[t] = "done" /\ req[t] = ReqBlank
        /\ ~called[t] /\ ret[t] = "Hi there"
        /\ EmptyPromptKey(key[t]) /\ key[t] \in DOMAIN store

-----------------------------------------------------------------------------
\* chat_stream of src/backend/api.py: the generator generate() behind a
\* /chat/stream response.  A server-sent event is the text it yields, kept
\* here as the pieces of its f-string.

\* how many events an agent run produces at most
MaxEvents == 3

\* the texts of the parts of an agent's events
ChunkTexts == {"Hel", "lo"}

\* str(e) of the exceptions a run raises
Messages == {"boom", ""}

\* a part of event.content.parts: hasattr(part, 'text') and part.text
MkPart(hasText, text) == [hasText |-> hasText, text |-> text]

\* an event of runner.run_async: event.content is set or not, and its parts
MkEvent(content, parts) == [content |-> content, parts |-> parts]

StreamEvents ==
    {MkEvent(FALSE, <<>>), MkEvent(TRUE, <<>>)}
    \cup {MkEvent(TRUE, <<MkPart(TRUE, x)>>) : x \in ChunkTexts}
    \cup {MkEvent(TRUE, <<MkPart(FALSE, ""), MkPart(TRUE, "Hel")>>),
          MkEvent(TRUE, <<MkPart(TRUE, ""), MkPart(TRUE, "lo")>>),
          MkEvent(TRUE, <<MkPart(TRUE, "Hel"), MkPart(TRUE, "lo")>>)}

\* line 478: f"data: {part.text}\n\n"
ChunkEvent(text) == <<"data: ", text, "\n\n">>

\* line 481
DoneEvent == <<"data: ", "[DONE]", "\n\n">>

\* line 484: f"data: [ERROR] {str(e)}\n\n"
ErrorEvent(msg) == <<"data: ", "[ERROR] ", msg, "\n\n">>

\* lines 475-478: the events yielded for the parts of one event of the run
RECURSIVE PartChunks(_)
PartChunks(parts) ==
    IF parts = <<>> THEN <<>>
    ELSE LET part == Head(parts)
         IN  (IF part.hasText /\ part.text # "" THEN <<ChunkEvent(part.text)>> ELSE <<>>)
             \o PartChunks(Tail(parts))

\* lines 474-478
Chunks(event) ==
    IF event.content /\ event.parts # <<>> THEN PartChunks(event.parts) ELSE <<>>

\* lines 452-459: whatever create_session raised is passed over
AfterCreate(e) == "run"

\* a generator that ends without its closing event
OnDoneSilent(y) == y

\* lines 480-481: the run is over
OnDone(y) == Append(y, DoneEvent)

\* lines 483-484: the run raised e
OnError(y, e) == Append(y, ErrorEvent(e))

\* a /chat/stream request arrives and its response starts generate()
StartStream ==
    /\ gen = "idle"
    /\ gen' = "create" /\ yielded' = <<>> /\ nevents' = 0
    /\ UNCHANGED <<cachevars, extract>>

\* lines 452-459: create_session returns (e is None) or raises e
CreateSession(e) ==
    /\ gen = "create"
    /\ gen' = AfterCreate(e)
    /\ UNCHANGED <<cachevars, extract, yielded, nevents>>

\* lines 468-478: the run produces an event and its text parts are yielded
RunEvent(event) ==
    /\ gen = "run" /\ nevents < MaxEvents
    /\ nevents' = nevents + 1
    /\ yielded' = yielded \o Chunks(event)
    /\ UNCHANGED <<cachevars, extract, gen>>

\* lines 468-472 and 483-484: the run raises an Exception with str(e) = msg
RunRaise(msg) ==
    /\ gen = "run"
    /\ yielded' = OnError(yielded, msg)
    /\ gen' = "closed"
    /\ UNCHANGED <<cachevars, extract, nevents>>

\* lines 468 and 480-481: the run is exhausted
RunDone ==
    /\ gen = "run"
    /\ yielded' = OnDone(yielded)
    /\ gen' = "closed"
    /\ UNCHANGED <<cachevars, extract, nevents>>

StreamInit == Init /\ enabled /\ ttl = 0 /\ sched = "cooperative"

StreamNext ==
    \/ StartStream
    \/ \E e \in {NoneAtom, "AlreadyExistsError"} : CreateSession(e)
    \/ \E event \in StreamEvents : RunEvent(event)
    \/ \E msg \in Messages : RunRaise(msg)
    \/ RunDone

StreamSpec == StreamInit /\ [][StreamNext]_vars

\* the event closes a stream
Terminal(ev) == ev = DoneEvent \/ \E msg \in Messages : ev = ErrorEvent(msg)

-----------------------------------------------------------------------------
\* extract_sources_from_response of src/backend/api.py.  Of response_text
\* the function sees what its regular expressions match: the numbered lines
\* after "Sources:" and the URLs in the order of the text.

\* lines 177 and 215: the limit on the sources
MaxSources == 10

\* how many different URLs a response text holds at most
MaxUrls == 11

StackOverflow == "stackoverflow.com"
DocsHost == "docs.example.org"
LocalHost == "localhost"

\* the URL https://<host>/<n>
MkUrl(host, n) == <<"https://", host, "/", n>>

\* a numbered line "1. <name> - <url>" of the section, or "1. <name>" when
\* url is the empty text
MkLine(name, url) == [name |-> name, url |-> url]

HelpName == <<"H", "e", "l", "p">>
SectionUrl == MkUrl(DocsHost, 0)

\* the "Sources:" sections of the response texts: none, a line with a name
\* and a URL, lines with a one-letter name and with no URL
Sections ==
    {<<>>,
     <<MkLine(HelpName, SectionUrl)>>,
     <<MkLine(<<"B">>, SectionUrl), MkLine(HelpName, <<>>)>>}

Agents == {<<>>, <<"RAGAgent">>, <<"StackOverflowAgent", "RAGAgent">>}

\* line 133: what re.findall gives for one line.  The name group `[^-]+?`
\* is lazy and what follows it is optional, so it matches one character;
\* the URL group matches only when " - <url>" comes right after that
\* character.
SourceItem(line) ==
    <<SubSeq(line.name, 1, 1), IF Len(line.name) = 1 THEN line.url ELSE <<>> >>

\* line 133
SourceItems(lines) == [i \in 1..Len(lines) |-> SourceItem(lines[i])]

\* line 142
BadNames ==
    {<<"d">>, <<"d", ".", "p", "d", "f">>, <<".", "p", "d", "f">>, <<"p", "d", "f">>,
     <<"d", "o", "c">>, <<"d", "o", "c", "u", "m", "e", "n", "t">>}

AsciiLower ==
    {"a", "b", "c", "d", "e", "f", "g", "h", "i", "j", "k", "l", "m", "n", "o", "p",
     "q", "r", "s", "t", "u", "v", "w", "x", "y", "z"}

\* line 144: re.match(r'^[a-z]\.(pdf|doc|txt)$', name.lower())
SingleLetterFile(name) ==
    /\ Len(name) = 5 /\ Lower(name)[1] \in AsciiLower /\ name[2] = "."
    /\ SubSeq(Lower(name), 3, 5) \in
          {<<"p", "d", "f">>, <<"d", "o", "c">>, <<"t", "x", "t">>}

\* lines 140-145: the name is kept
ValidName(name) ==
    /\ name # <<>> /\ Len(name) > 1
    /\ Lower(name) \notin BadNames
    /\ ~SingleLetterFile(name)

\* lines 156-162 and 189-204: the type of a source
SourceType(url, agents) ==
    IF url # None /\ url[2] = StackOverflow THEN "doc"
    ELSE IF \E i \in 1..Len(agents) : agents[i] = "RAGAgent" THEN "doc"
    ELSE IF url # None THEN "url"
    ELSE "doc"

\* f"src-{source_id_counter}"
SrcId(n) == <<"src-", n>>

\* lines 164-170 and 206-212
MkSource(n, type, name, url) ==
    [id |-> SrcId(n), type |-> type, name |-> name, url |-> url, path |-> url]

\* lines 134-171: the loop over the lines of the section, from the state acc
\* of the locals sources, seen_urls, seen_names and source_id_counter
RECURSIVE SectionLoop(_, _, _)
SectionLoop(items, agents, acc) ==
    IF items = <<>> THEN acc
    ELSE LET name == Strip(Head(items)[1])
             url == IF Head(items)[2] # <<>> THEN Head(items)[2] ELSE None
         IN  IF ~ValidName(name) THEN SectionLoop(Tail(items), agents, acc)
             ELSE IF name \in acc.seen_names \/ (url # None /\ url \in acc.seen_urls)
             THEN SectionLoop(Tail(items), agents, acc)
             ELSE SectionLoop(Tail(items), agents,
                    [sources |-> Append(acc.sources,
                                        MkSource(acc.counter, SourceType(url, agents),
                                                 name, url)),
                     seen_urls |-> IF url # None THEN acc.seen_urls \cup {url}
                                   ELSE acc.seen_urls,
                     seen_names |-> acc.seen_names \cup {name},
                     counter |-> acc.counter + 1])

\* line 181: the URL is one of the service itself
SkipUrl(url) == url[2] = LocalHost

\* lines 185-204: the display name of a URL; without a /questions/ path a
\* Stack Overflow URL gets the fixed name, any other the title of its domain
UrlName(url) ==
    IF url[2] = StackOverflow THEN <<"Stack Overflow Question">>
    ELSE IF url[2] = DocsHost THEN <<"Docs Example Org">>
    ELSE <<url[2]>>

\* line 177: url not in seen_urls
NotSeen(url, seen) == url \notin seen

\* the hosts the k-th different URL of a text may have
FreshHosts(k) == {IF k % 2 = 1 THEN StackOverflow ELSE DocsHost, LocalHost}

\* the URLs the next match of line 175 may be: one met before, one of the
\* section's lines, or a new one
NextUrls ==
    seen_urls
    \cup {sources_text[i].url : i \in {j \in 1..Len(sources_text) : sources_text[j].url # <<>>}}
    \cup {MkUrl(h, nurls + 1) : h \in {x \in FreshHosts(nurls + 1) : nurls < MaxUrls}}

\* lines 111-171: the call, with the section's lines and the agents; the
\* loop over the section runs to its end
StartExtract(lines, agents) ==
    /\ xpc = "idle"
    /\ LET acc == SectionLoop(SourceItems(lines), agents,
                              [sources |-> <<>>, seen_urls |-> {}, seen_names |-> {},
                               counter |-> 1])
       IN  /\ sources' = acc.sources
           /\ seen_urls' = acc.seen_urls
           /\ source_id_counter' = acc.counter
    /\ sources_text' = lines /\ agents_called' = agents
    /\ nurls' = 0 /\ result' = <<>>
    /\ xpc' = "urls"
    /\ UNCHANGED <<cachevars, stream>>

\* lines 176-213: one round of the loop over the URLs of the text
UrlStep(url) ==
    /\ xpc = "urls"
    /\ nurls' = IF url[4] = nurls + 1 THEN nurls + 1 ELSE nurls
    /\ IF NotSeen(url, seen_urls) /\ Len(sources) < MaxSources
       THEN /\ seen_urls' = seen_urls \cup {url}
            /\ IF SkipUrl(url)
               THEN UNCHANGED <<sources, source_id_counter>>
               ELSE /\ sources' = Append(sources,
                                         MkSource(source_id_counter,
                                                  SourceType(url, agents_called),
                                                  UrlName(url), url))
                    /\ source_id_counter' = source_id_counter + 1
       ELSE UNCHANGED <<seen_urls, sources, source_id_counter>>
    /\ UNCHANGED <<cachevars, stream, xpc, agents_called, sources_text, result>>

\* line 215: return sources[:10]
Return ==
    /\ xpc = "urls"
    /\ result' = SubSeq(sources, 1, IF Len(sources) > MaxSources THEN MaxSources
                                    ELSE Len(sources))
    /\ xpc' = "returned"
    /\ UNCHANGED <<cachevars, stream, agents_called, sources_text, nurls, sources,
                   seen_urls, source_id_counter>>

ExtractInit == Init /\ enabled /\ ttl = 0 /\ sched = "cooperative"

ExtractNext ==
    \/ \E lines \in Sections, agents \in Agents : StartExtract(lines, agents)
    \/ \E url \in NextUrls : UrlStep(url)
    \/ Return

ExtractSpec == ExtractInit /\ [][ExtractNext]_vars

\* the source comes from a line of the "Sources:" section: it carries the
\* line's name or the line's URL
FromSection(s) ==
    \E i \in 1..Len(sources_text) :
        \/ s.name = Strip(sources_text[i].name)
        \/ sources_text[i].url # <<>> /\ s.url = sources_text[i].url

\* what is returned is a list of at most 10 sources, the i-th with the id
\* "src-i", no two of them with the same URL unless that is None
WithinLimitAndUnique ==
    xpc = "returned" =>
        /\ Len(result) <= MaxSources
        /\ \A i \in 1..Len(result) : result[i].id = SrcId(i)
        /\ \A i, j \in 1..Len(result) :
              (i # j /\ result[i].url # None) => result[i].url # result[j].url

\* C30: what extract_sources_from_response returns is a list of at most 10
\* sources, the i-th with the id "src-i", no two of them with the same URL
\* unless that is None, and with the sources that come from the "Sources:"
\* section before the URLs found elsewhere in the text.
C30_SourcesWellFormed ==
    /\ WithinLimitAndUnique
    /\ xpc = "returned" =>
          \A i, j \in 1..Len(result) :
              (i < j /\ FromSection(result[j])) => FromSection(result[i])

=============================================================================
